---- MODULE Spec2Model ----
(***************************************************************************)
(* The ledger state engine of packages/ledgerstate: the reality DAG, the   *)
(* conflict sets, the transfer outputs with their owning reality, the      *)
(* bookings index, and Reality.BookTransfer (reality.go).                  *)
(*                                                                         *)
(* A call of BookTransfer is a small machine: a stack of frames, one frame *)
(* per piece of reality.go that runs without touching another thread's     *)
(* objects in between.  Spec runs each call to completion in one step      *)
(* (sequential callers); SpecConc interleaves the frames of several        *)
(* callers (parallel transport handlers).                                  *)
(***************************************************************************)
EXTENDS Integers, Sequences, FiniteSets, TLC

VARIABLES ledger, threads, last, booked, calls, episode, walk

vars == <<ledger, threads, last, booked, calls, episode, walk>>

----------------------------------------------------------------------------
(* Bounds of the model. *)

\* BookTransfer calls made in one behaviour of Spec.
MaxCalls == 4

\* BookTransfer calls made in one behaviour of SpecConc.
MaxConcCalls == 3

\* Parent realities one ancestor traversal loads in SpecWalk.
MaxWalkLoads == 6

----------------------------------------------------------------------------
(* uint64 balances: four 16-bit limbs, least significant first, so that    *)
(* += and -= wrap modulo 2^64 exactly as Go's uint64 does.                 *)

LimbBase == 2 ^ 16

Limbs == 1..4

U64(l1, l2, l3, l4) == <<l1, l2, l3, l4>>

Zero64 == U64(0, 0, 0, 0)

One64 == U64(1, 0, 0, 0)

Two64 == U64(2, 0, 0, 0)

\* 2^63 and 2^63 + 1
Half64 == U64(0, 0, 0, 2 ^ 15)

HalfPlusOne64 == U64(1, 0, 0, 2 ^ 15)

\* carry into limb i of x + y
RECURSIVE CarryIn(_, _, _)
CarryIn(x, y, i) ==
    IF i = 1 THEN 0 ELSE (x[i - 1] + y[i - 1] + CarryIn(x, y, i - 1)) \div LimbBase

\* x + y modulo 2^64
Add64(x, y) == [i \in Limbs |-> (x[i] + y[i] + CarryIn(x, y, i)) % LimbBase]

\* 1 iff x + y does not fit 64 bits
CarryOut64(x, y) == CarryIn(x, y, 5)

\* borrow into limb i of x - y
RECURSIVE BorrowIn(_, _, _)
BorrowIn(x, y, i) ==
    IF i = 1 THEN 0
    ELSE IF x[i - 1] - y[i - 1] - BorrowIn(x, y, i - 1) < 0 THEN 1 ELSE 0

\* x - y modulo 2^64
Sub64(x, y) == [i \in Limbs |-> (x[i] - y[i] - BorrowIn(x, y, i)) % LimbBase]

\* The mathematical sum of a sequence of uint64 values, as <<k, w>> standing
\* for k * 2^64 + w.
RECURSIVE TrueSum(_)
TrueSum(vals) ==
    IF vals = <<>> THEN <<0, Zero64>>
    ELSE LET rest == TrueSum(Tail(vals))
         IN  <<rest[1] + CarryOut64(rest[2], Head(vals)), Add64(rest[2], Head(vals))>>

----------------------------------------------------------------------------
(* uint32 counters: the value v is held as v when v < 2^31 and as v - 2^32 *)
(* otherwise, so that atomic.AddUint32(&c, 1) and                          *)
(* atomic.AddUint32(&c, ^uint32(0)) wrap as the hardware does.             *)

MinInt32 == -2147483647 - 1

MaxInt32 == 2 ^ 30 + (2 ^ 30 - 1)

AddUint32One(c) == IF c = MaxInt32 THEN MinInt32 ELSE c + 1

AddUint32AllOnes(c) == IF c = MinInt32 THEN MaxInt32 ELSE c - 1

----------------------------------------------------------------------------
(* Identifiers.  A RealityId is a set of names: a transfer's reality is    *)
(* {hash}, an aggregated reality is the union of its parents' ids (the     *)
(* hash of the sorted parent ids), and the empty id is the empty set.      *)

MAIN_REALITY_ID == {"main"}

emptyRealityId == {}

ToRealityId(transferHash) == {transferHash}

NewTransferOutputReference(transferHash, addressHash) == <<transferHash, addressHash>>

NewConflictSetId(transferHash, addressHash) == <<transferHash, addressHash>>

----------------------------------------------------------------------------
(* The transfers the callers submit.  A transfer is fixed by its hash.     *)
(* Outputs are listed in the order the Go map is ranged over.              *)

GenesisHash == "g"

Iota == "iota"

Bal(v) == <<<<Iota, v>>>>

TransferHashes == {"t1", "t2", "t3", "t4", "t5", "t6", "t7", "tu", "to"}

\* The transfers that spend a genesis output without funds: g.z holds a
\* balance of 0, g.e holds no balance at all.
ZeroTransferHashes == {"z0", "z1", "e0", "e1", "e2"}

Transfers ==
    [t1 |-> [inputs |-> <<<<"g", "a">>>>, outputs |-> <<<<"a", Bal(One64)>>>>],
     t2 |-> [inputs |-> <<<<"g", "a">>>>, outputs |-> <<<<"a", Bal(One64)>>>>],
     t3 |-> [inputs |-> <<<<"t1", "a">>>>, outputs |-> <<<<"a", Bal(One64)>>>>],
     t4 |-> [inputs |-> <<<<"g", "a">>, <<"g", "b">>>>, outputs |-> <<<<"a", Bal(Two64)>>>>],
     t5 |-> [inputs |-> <<<<"g", "b">>>>, outputs |-> <<<<"a", Bal(One64)>>>>],
     t6 |-> [inputs |-> <<<<"t3", "a">>>>, outputs |-> <<<<"a", Bal(One64)>>>>],
     t7 |-> [inputs |-> <<<<"t1", "a">>, <<"g", "b">>>>, outputs |-> <<<<"a", Bal(Two64)>>>>],
     tu |-> [inputs |-> <<<<"g", "a">>>>, outputs |-> <<<<"a", Bal(Two64)>>>>],
     z0 |-> [inputs |-> <<<<"g", "z">>>>, outputs |-> <<>>],
     z1 |-> [inputs |-> <<<<"g", "z">>>>, outputs |-> <<<<"a", Bal(Zero64)>>>>],
     e0 |-> [inputs |-> <<<<"g", "e">>>>, outputs |-> <<>>],
     e1 |-> [inputs |-> <<<<"g", "e">>>>, outputs |-> <<<<"a", <<>>>>>>],
     e2 |-> [inputs |-> <<<<"g", "e">>>>, outputs |-> <<<<"a", Bal(One64)>>>>],
     to |-> [inputs |-> <<<<"g", "a">>>>,
             outputs |-> <<<<"a", Bal(Half64)>>, <<"b", Bal(HalfPlusOne64)>>>>]]

\* The genesis outputs a ledger may be constructed with.
GenesisRefs == {<<"g", "a">>, <<"g", "b">>}

ZeroGenesisRefs == {<<"g", "z">>, <<"g", "e">>}

GenesisBalances == Bal(One64)

GenesisBalancesOf(addressHash) ==
    CASE addressHash = "z" -> Bal(Zero64)
      [] addressHash = "e" -> <<>>
      [] OTHER -> GenesisBalances

InputsOf(t) == Transfers[t].inputs

OutputsOf(t) == Transfers[t].outputs

OutputAddresses(t) == [i \in 1..Len(OutputsOf(t)) |-> OutputsOf(t)[i][1]]

OutputRefsOf(t) == {<<t, OutputsOf(t)[i][1]>> : i \in 1..Len(OutputsOf(t))}

\* TransferOutput.GetBalances(): immutable once the output is created.
GetBalances(ref) ==
    IF ref[1] = GenesisHash THEN GenesisBalancesOf(ref[2])
    ELSE LET outs == OutputsOf(ref[1])
             i == CHOOSE j \in 1..Len(outs) : outs[j][1] = ref[2]
         IN  outs[i][2]

----------------------------------------------------------------------------
(* The object store (hive.go objectstorage, consumed interface).  Store    *)
(* puts the object under its key, Load/Get resolve the key, Delete removes *)
(* it at once.  A handle is the key: what a caller does through a handle   *)
(* reaches the object stored under that key, and is lost when none is.     *)

NoObjects == [k \in {} |-> {}]

Exists(store, key) == key \in DOMAIN store

Store(store, key, object) == (key :> object) @@ store

Delete(store, key) == [k \in DOMAIN store \ {key} |-> store[k]]

NoConsumers == [th \in {} |-> <<>>]

----------------------------------------------------------------------------
(* Reality *)

\* newReality(id, parentRealities...)
newReality(parentRealityIds) ==
    [parentRealityIds |-> parentRealityIds, conflictIds |-> {}, transferOutputCount |-> 0]

GetParentRealityIds(L, id) == L.realities[id].parentRealityIds

IsAggregated(L, id) == Cardinality(L.realities[id].parentRealityIds) > 1

IncreaseTransferOutputCount(L, id) ==
    IF Exists(L.realities, id)
    THEN [L EXCEPT !.realities[id].transferOutputCount = AddUint32One(@)]
    ELSE L

\* The ids reached from `frontier` over parent edges (the realities that
\* GetParentRealities loads, level by level).
RECURSIVE ParentClosure(_, _, _)
ParentClosure(L, frontier, seen) ==
    LET next == UNION {L.realities[id].parentRealityIds :
                         id \in {f \in frontier : Exists(L.realities, f)}}
        new == next \ seen
    IN  IF new = {} THEN seen ELSE ParentClosure(L, new, seen \cup new)

\* GetAncestorRealities: the keys of the returned map.
GetAncestorRealities(L, id) == ParentClosure(L, {id}, {})

\* GetParentRealities panics when a parent id does not resolve.
AncestorLoadPanics(L, id) ==
    \E a \in GetAncestorRealities(L, id) : ~Exists(L.realities, a)

\* GetAncestorRealities recurses along every parent path: with a parent
\* cycle within reach the recursion never ends (the goroutine stack
\* overflows).
AncestorRecursionDiverges(L, id) ==
    \E a \in GetAncestorRealities(L, id) \cup {id} :
        Exists(L.realities, a) /\ a \in GetAncestorRealities(L, a)

\* The outcome of reality.DescendsFrom(realityId): "true", "false", or
\* "crash" when the ancestor traversal panics or does not terminate.
DescendsFrom(L, id, realityId) ==
    IF id = realityId THEN "true"
    ELSE IF AncestorLoadPanics(L, id) \/ AncestorRecursionDiverges(L, id) THEN "crash"
    ELSE IF realityId \in GetAncestorRealities(L, id) THEN "true"
    ELSE "false"

\* reality.AddConflictSet(conflictSetId) through a handle of reality `id`
AddConflictSet(L, id, conflictSetId) ==
    IF Exists(L.realities, id)
    THEN [L EXCEPT !.realities[id].conflictIds = @ \cup {conflictSetId}]
    ELSE L

\* reality.CreateReality(id): a fresh child of `realityId`, stored under id
CreateReality(L, realityId, id) ==
    [L EXCEPT !.realities = Store(@, id, newReality({realityId}))]

----------------------------------------------------------------------------
(* Conflict, TransferOutput, LedgerState: the collaborators of reality.go  *)

\* newConflictSet(id), stored
StoreNewConflictSet(L, conflictSetId) ==
    [L EXCEPT !.conflicts = Store(@, conflictSetId, [realities |-> {}])]

\* conflictSet.AddReality(realityId): idempotent
AddReality(L, conflictSetId, realityId) ==
    IF Exists(L.conflicts, conflictSetId)
    THEN [L EXCEPT !.conflicts[conflictSetId].realities = @ \cup {realityId}]
    ELSE L

generateTransferOutputBookingStorageKey(realityId, addressHash, spent, transferHash) ==
    <<realityId, addressHash, spent, transferHash>>

\* transferOutput.markAsSpent(): the bookings index entry moves from the
\* unspent key to the spent key.
markAsSpent(L, ref) ==
    LET rid == L.outputs[ref].realityId
    IN  [L EXCEPT !.bookings =
            (@ \ {generateTransferOutputBookingStorageKey(rid, ref[2], FALSE, ref[1])})
            \cup {generateTransferOutputBookingStorageKey(rid, ref[2], TRUE, ref[1])}]

\* transferOutput.addConsumer(consumer, outputs): what it returns.  nil
\* for the first consumer (and for a consumer already recorded), the one
\* previously recorded consumer for the second, an empty map afterwards.
consumersToElevate(L, ref, consumer) ==
    LET cons == L.outputs[ref].consumers
    IN  IF consumer \in DOMAIN cons \/ Cardinality(DOMAIN cons) = 0
        THEN [isNil |-> TRUE, consumers |-> NoConsumers]
        ELSE IF Cardinality(DOMAIN cons) = 1
        THEN [isNil |-> FALSE, consumers |-> cons]
        ELSE [isNil |-> FALSE, consumers |-> NoConsumers]

\* transferOutput.addConsumer(consumer, outputs): what it does.
addConsumer(L, ref, consumer, addressHashes) ==
    LET cons == L.outputs[ref].consumers
        spent == IF Cardinality(DOMAIN cons) = 0 THEN markAsSpent(L, ref) ELSE L
    IN  IF consumer \in DOMAIN cons THEN L
        ELSE [spent EXCEPT !.outputs[ref].consumers = Store(cons, consumer, addressHashes)]

\* ledgerState.AggregateRealities(parents...).Store(): the id of the
\* canonical reality with exactly these parents, and the ledger with it
\* stored.  One parent short-circuits to that parent.
AggregatedRealityId(parentRealityIds) == UNION parentRealityIds

AggregateRealities(L, parentRealityIds) ==
    LET id == AggregatedRealityId(parentRealityIds)
    IN  IF Cardinality(parentRealityIds) = 1 \/ Exists(L.realities, id) THEN L
        ELSE [L EXCEPT !.realities = Store(@, id, newReality(parentRealityIds))]

----------------------------------------------------------------------------
(* verifyTransfer *)

NoBalances == [c \in {} |-> Zero64]

\* totalColoredBalances[color] += value, for every balance of an input
RECURSIVE AddBalances(_, _)
AddBalances(totals, balances) ==
    IF balances = <<>> THEN totals
    ELSE LET color == Head(balances)[1]
             was == IF color \in DOMAIN totals THEN totals[color] ELSE Zero64
         IN  AddBalances(Store(totals, color, Add64(was, Head(balances)[2])), Tail(balances))

\* totalColoredBalances[color] -= value, the entry deleted when it is 0
RECURSIVE SubBalances(_, _)
SubBalances(totals, balances) ==
    IF balances = <<>> THEN totals
    ELSE LET color == Head(balances)[1]
             was == IF color \in DOMAIN totals THEN totals[color] ELSE Zero64
             now == Sub64(was, Head(balances)[2])
         IN  SubBalances(IF now = Zero64 THEN Delete(totals, color)
                         ELSE Store(totals, color, now), Tail(balances))

RECURSIVE SubOutputs(_, _)
SubOutputs(totals, outputs) ==
    IF outputs = <<>> THEN totals
    ELSE SubOutputs(SubBalances(totals, Head(outputs)[2]), Tail(outputs))

\* The loop over the inputs, from input k on.
RECURSIVE verifyInputs(_, _, _, _, _)
verifyInputs(L, realityId, inputs, k, totals) ==
    IF k > Len(inputs) THEN [err |-> "none", totals |-> totals]
    ELSE IF ~Exists(L.outputs, inputs[k])
    THEN [err |-> "MissingInput", totals |-> totals]
    ELSE LET descends == DescendsFrom(L, realityId, L.outputs[inputs[k]].realityId)
         IN  IF descends = "crash" THEN [err |-> "Crashed", totals |-> totals]
             ELSE IF descends = "false" THEN [err |-> "InputNotInReality", totals |-> totals]
             ELSE verifyInputs(L, realityId, inputs, k + 1,
                               AddBalances(totals, GetBalances(inputs[k])))

\* reality.verifyTransfer(inputs, outputs): "none" or the error
verifyTransfer(L, realityId, inputs, outputs) ==
    LET ins == verifyInputs(L, realityId, inputs, 1, NoBalances)
    IN  IF ins.err # "none" THEN ins.err
        ELSE IF DOMAIN SubOutputs(ins.totals, outputs) # {} THEN "UnbalancedTransfer"
        ELSE "none"

----------------------------------------------------------------------------
(* bookTransferOutput *)

\* NewTransferOutput(ledgerState, emptyRealityId, ...): not yet stored
NewTransferOutput == [realityId |-> emptyRealityId, consumers |-> NoConsumers]

\* DecreaseTransferOutputCount on the old reality, which is removed from
\* the store when the count reaches 0 (lines 401-406).
DecreaseAndRemoveIfEmpty(L, oldRealityId) ==
    IF ~Exists(L.realities, oldRealityId) THEN L
    ELSE LET count == AddUint32AllOnes(L.realities[oldRealityId].transferOutputCount)
         IN  IF count = 0
             THEN [L EXCEPT !.realities = Delete(@, oldRealityId)]
             ELSE [L EXCEPT !.realities[oldRealityId].transferOutputCount = count]

\* Whether reality.bookTransferOutput(transferOutput) ends with
\* IncreaseTransferOutputCount (line 413).
bookingIncreasesCount(realityId, transferOutput) == transferOutput.realityId # realityId

\* reality.bookTransferOutput(transferOutput) up to, and without, the final
\* IncreaseTransferOutputCount.
bookTransferOutputMove(L, realityId, ref, transferOutput) ==
    LET old == transferOutput.realityId
        spent == Cardinality(DOMAIN transferOutput.consumers) >= 1
        newKey == generateTransferOutputBookingStorageKey(realityId, ref[2], spent, ref[1])
        oldKey == generateTransferOutputBookingStorageKey(old, ref[2], spent, ref[1])
    IN  IF old = emptyRealityId
        THEN [L EXCEPT !.outputs = Store(@, ref, [transferOutput EXCEPT !.realityId = realityId]),
                       !.bookings = @ \cup {newKey}]
        ELSE IF old # realityId
        THEN LET moved == [L EXCEPT !.outputs[ref].realityId = realityId]
                 left == DecreaseAndRemoveIfEmpty(moved, old)
             IN  [left EXCEPT !.bookings = (@ \ {oldKey}) \cup {newKey}]
        ELSE L

\* reality.bookTransferOutput(transferOutput), whole
bookTransferOutput(L, realityId, ref, transferOutput) ==
    IF bookingIncreasesCount(realityId, transferOutput)
    THEN IncreaseTransferOutputCount(
             bookTransferOutputMove(L, realityId, ref, transferOutput), realityId)
    ELSE bookTransferOutputMove(L, realityId, ref, transferOutput)

----------------------------------------------------------------------------
(* One call of BookTransfer.  The caller's state `th` holds the frames     *)
(* still to run, first frame first.                                        *)

NoRef == <<"", "">>

Frame(op, ref, rid, ctx, k) == [op |-> op, ref |-> ref, rid |-> rid, ctx |-> ctx, k |-> k]

\* BookTransfer, line 162: getTransferInputs hands over one cached handle
\* per input.  `handles` counts the handles the call holds and has yet to
\* release.
NewCall(transferHash, realityId) ==
    [pc |-> "run", transfer |-> transferHash, reality |-> realityId,
     stack |-> <<Frame("verify", NoRef, {}, {}, 0)>>,
     conflictSets |-> <<>>, toElevate |-> NoConsumers, result |-> "none",
     handles |-> Len(InputsOf(transferHash))]

IdleThread ==
    [pc |-> "idle", transfer |-> "", reality |-> {}, stack |-> <<>>,
     conflictSets |-> <<>>, toElevate |-> NoConsumers, result |-> "none",
     handles |-> 0]

\* The call returns (or the process dies) with `result`.
Return(th, result) ==
    [th EXCEPT !.pc = "done", !.stack = <<>>, !.toElevate = NoConsumers, !.result = result]

Push(th, frames) == [th EXCEPT !.stack = frames \o @]

\* A set as a sequence: the order a Go map or set is ranged over.
RECURSIVE Ranged(_)
Ranged(S) ==
    IF S = {} THEN <<>>
    ELSE LET x == CHOOSE y \in S : TRUE IN <<x>> \o Ranged(S \ {x})

\* A bookTransfer that marks the first input consumed before it verifies.
StepVerifyAfterConsuming(L, th) ==
    LET inputs == InputsOf(th.transfer)
        err == verifyTransfer(L, th.reality, inputs, OutputsOf(th.transfer))
        touched == IF inputs # <<>> /\ Exists(L.outputs, inputs[1])
                   THEN addConsumer(L, inputs[1], th.transfer, OutputAddresses(th.transfer))
                   ELSE L
    IN  IF err # "none" THEN [L |-> touched, th |-> Return(th, err)]
        ELSE [L |-> L, th |-> Push(th, <<Frame("consume", NoRef, {}, {}, 1)>>)]

\* bookTransfer, lines 168-170
StepVerify(L, th) ==
    LET err == verifyTransfer(L, th.reality, InputsOf(th.transfer), OutputsOf(th.transfer))
    IN  IF err # "none" THEN [L |-> L, th |-> Return(th, err)]
        ELSE [L |-> L, th |-> Push(th, <<Frame("consume", NoRef, {}, {}, 1)>>)]

\* consumeInputs, lines 250-257 and 267: input k is consumed
StepConsume(L, th, k) ==
    LET inputs == InputsOf(th.transfer)
        ref == inputs[k]
        toElevate == consumersToElevate(L, ref, th.transfer)
        consumed == addConsumer(L, ref, th.transfer, OutputAddresses(th.transfer))
    IN  IF k > Len(inputs)
        THEN [L |-> L, th |-> Push(th, <<Frame("target", NoRef, {}, {}, 0)>>)]
        ELSE IF toElevate.isNil
        THEN [L |-> consumed, th |-> Push(th, <<Frame("consume", NoRef, {}, {}, k + 1)>>)]
        ELSE [L |-> consumed,
              th |-> Push([th EXCEPT !.toElevate = toElevate.consumers],
                          <<Frame("conflict", ref, {}, {}, k)>>)]

\* The elevation frames of one conflicting consumer's outputs (lines 311-315).
ElevationFrames(transferHash, addressHashes, newRealityId, ctx) ==
    [i \in 1..Len(addressHashes) |->
        Frame("elevate", NewTransferOutputReference(transferHash, addressHashes[i]),
              newRealityId, ctx, 0)]

\* createRealityForConflictingConsumers, lines 298-309, for one consumer:
\* the elevated reality is created and registered with the conflict set.
createRealityForConflictingConsumer(L, realityId, transferHash, conflictSetId) ==
    LET elevatedRealityId == ToRealityId(transferHash)
        created == CreateReality(L, realityId, elevatedRealityId)
        joined == AddReality(created, conflictSetId, elevatedRealityId)
    IN  AddConflictSet(joined, elevatedRealityId, conflictSetId)

RECURSIVE createRealitiesForConflictingConsumers(_, _, _, _)
createRealitiesForConflictingConsumers(L, realityId, transferHashes, conflictSetId) ==
    IF transferHashes = <<>> THEN L
    ELSE createRealitiesForConflictingConsumers(
             createRealityForConflictingConsumer(L, realityId, Head(transferHashes),
                                                 conflictSetId),
             realityId, Tail(transferHashes), conflictSetId)

RECURSIVE AllElevationFrames(_, _, _)
AllElevationFrames(consumers, transferHashes, ctx) ==
    IF transferHashes = <<>> THEN <<>>
    ELSE ElevationFrames(Head(transferHashes), consumers[Head(transferHashes)],
                         ToRealityId(Head(transferHashes)), ctx)
         \o AllElevationFrames(consumers, Tail(transferHashes), ctx)

\* A retrieveConflictSetForConflictingInput that stores a new conflict set
\* for every conflicting input, whether or not there is a consumer to elevate.
StepConflictRecreating(L, th, ref, k) ==
    LET conflictSetId == NewConflictSetId(ref[1], ref[2])
        hashes == Ranged(DOMAIN th.toElevate)
        next == <<Frame("consume", NoRef, {}, {}, k + 1)>>
        noted == [th EXCEPT !.conflictSets = Append(@, conflictSetId),
                            !.toElevate = NoConsumers, !.handles = @ + 1]
    IN  [L |-> createRealitiesForConflictingConsumers(
                   StoreNewConflictSet(L, conflictSetId), th.reality, hashes,
                   conflictSetId),
         th |-> Push(noted, AllElevationFrames(th.toElevate, hashes, th.reality) \o next)]

\* retrieveConflictSetForConflictingInput, lines 273-295, and the append of
\* line 263.  th.toElevate are the consumers addConsumer returned.
StepConflict(L, th, ref, k) ==
    LET conflictSetId == NewConflictSetId(ref[1], ref[2])
        hashes == Ranged(DOMAIN th.toElevate)
        next == <<Frame("consume", NoRef, {}, {}, k + 1)>>
        noted == [th EXCEPT !.conflictSets = Append(@, conflictSetId),
                            !.toElevate = NoConsumers, !.handles = @ + 1]
    IN  IF Cardinality(DOMAIN th.toElevate) >= 1
        THEN [L |-> createRealitiesForConflictingConsumers(
                        StoreNewConflictSet(L, conflictSetId), th.reality, hashes,
                        conflictSetId),
              th |-> Push(noted, AllElevationFrames(th.toElevate, hashes, th.reality) \o next)]
        ELSE IF Exists(L.conflicts, conflictSetId)
        THEN [L |-> L, th |-> Push(noted, next)]
        ELSE [L |-> L, th |-> Return(th, "Crashed")]


\* The frames that elevate every output of every consumer of `ref`
\* (elevateTransferOutputOfCurrentReality, lines 348-356).
RECURSIVE ConsumerFrames(_, _, _, _)
ConsumerFrames(consumers, transferHashes, newRealityId, ctx) ==
    IF transferHashes = <<>> THEN <<>>
    ELSE ElevationFrames(Head(transferHashes), consumers[Head(transferHashes)],
                         newRealityId, ctx)
         \o ConsumerFrames(consumers, Tail(transferHashes), newRealityId, ctx)

\* elevateTransferOutputOfCurrentReality(transferOutput, newReality), line
\* 344 without the final increase: what is left to run is the increase and
\* the descent into the consumers.
elevateTransferOutputOfCurrentReality(L, th, ctx, ref, newRealityId) ==
    LET transferOutput == L.outputs[ref]
        after == <<Frame(IF bookingIncreasesCount(newRealityId, transferOutput)
                         THEN "increaseAndDescend" ELSE "descend",
                         ref, newRealityId, ctx, 0)>>
    IN  [L |-> bookTransferOutputMove(L, newRealityId, ref, transferOutput),
         th |-> Push(th, after)]

\* elevateTransferOutputOfNestedReality on the reality `nested`, lines
\* 361-377
elevateTransferOutputOfNestedReality(L, th, nested, ref, oldParentRealityId, newParentRealityId) ==
    LET newParentRealities ==
            (GetParentRealityIds(L, nested) \ {oldParentRealityId}) \cup {newParentRealityId}
    IN  IF ~IsAggregated(L, nested)
        THEN [L |-> [L EXCEPT !.realities[nested].parentRealityIds = newParentRealities],
              th |-> th]
        ELSE elevateTransferOutputOfCurrentReality(
                 AggregateRealities(L, newParentRealities), th, nested, ref,
                 AggregatedRealityId(newParentRealities))

\* reality.elevateTransferOutput(transferOutputReference, newReality) on the
\* reality `ctx`, lines 322-341
elevateTransferOutput(L, th, ctx, ref, newRealityId) ==
    IF ~Exists(L.outputs, ref) THEN [L |-> L, th |-> Return(th, "ElevationError")]
    ELSE IF L.outputs[ref].realityId = ctx
    THEN elevateTransferOutputOfCurrentReality(L, th, ctx, ref, newRealityId)
    ELSE IF ~Exists(L.realities, L.outputs[ref].realityId) THEN [L |-> L, th |-> th]
    ELSE elevateTransferOutputOfNestedReality(L, th, L.outputs[ref].realityId, ref, ctx,
                                              newRealityId)

\* The descent of lines 348-356 into the consumers of `ref`.
StepDescend(L, th, ctx, ref, newRealityId) ==
    LET consumers == L.outputs[ref].consumers
    IN  [L |-> L,
         th |-> Push(th, ConsumerFrames(consumers, Ranged(DOMAIN consumers),
                                        newRealityId, ctx))]

\* conflictSet.AddReality / targetReality.AddConflictSet, lines 184-189
RECURSIVE registerTargetReality(_, _, _)
registerTargetReality(L, targetRealityId, conflictSets) ==
    IF conflictSets = <<>> THEN L
    ELSE registerTargetReality(
             AddConflictSet(AddReality(L, Head(conflictSets), targetRealityId),
                            targetRealityId, Head(conflictSets)),
             targetRealityId, Tail(conflictSets))

PlaceFrames(transferHash, realityId) ==
    [i \in 1..Len(OutputsOf(transferHash)) |->
        Frame("place", <<transferHash, OutputsOf(transferHash)[i][1]>>, realityId, {}, 0)]

\* bookTransfer, lines 177-199: the reality the outputs are booked into
StepTarget(L, th) ==
    LET targetRealityId == ToRealityId(th.transfer)
    IN  IF Len(th.conflictSets) >= 1
        THEN [L |-> registerTargetReality(CreateReality(L, th.reality, targetRealityId),
                                          targetRealityId, th.conflictSets),
              th |-> Push(th, PlaceFrames(th.transfer, targetRealityId))]
        ELSE [L |-> L, th |-> Push(th, PlaceFrames(th.transfer, th.reality))]

\* bookTransferOutput(NewTransferOutput(...)) of lines 192 and 197, without
\* the final increase
StepPlace(L, th, ref, realityId) ==
    [L |-> bookTransferOutputMove(L, realityId, ref, NewTransferOutput),
     th |-> Push(th, <<Frame("increase", ref, realityId, {}, 0)>>)]

\* One frame of the call.
Dispatch(L, th, f) ==
    CASE f.op = "verify" -> StepVerify(L, th)
      [] f.op = "consume" -> StepConsume(L, th, f.k)
      [] f.op = "conflict" -> StepConflict(L, th, f.ref, f.k)
      [] f.op = "elevate" -> elevateTransferOutput(L, th, f.ctx, f.ref, f.rid)
      [] f.op = "increaseAndDescend" ->
            StepDescend(IncreaseTransferOutputCount(L, f.rid), th, f.ctx, f.ref, f.rid)
      [] f.op = "descend" -> StepDescend(L, th, f.ctx, f.ref, f.rid)
      [] f.op = "target" -> StepTarget(L, th)
      [] f.op = "place" -> StepPlace(L, th, f.ref, f.rid)
      [] f.op = "increase" -> [L |-> IncreaseTransferOutputCount(L, f.rid), th |-> th]

\* bookTransfer, lines 201-202: the handles of the conflict sets and of the
\* inputs are released.
ReleaseAll(th) ==
    [th EXCEPT !.handles = @ - Len(th.conflictSets) - Len(InputsOf(th.transfer))]

\* The first frame runs; the call returns nil (lines 201-204) when none is
\* left.
StepCall(L, th) ==
    LET ran == Dispatch(L, [th EXCEPT !.stack = Tail(@)], Head(th.stack))
    IN  IF ran.th.pc = "run" /\ ran.th.stack = <<>>
        THEN [L |-> ran.L, th |-> Return(ReleaseAll(ran.th), "Ok")]
        ELSE ran

\* The call run until it returns.
RECURSIVE RunCall(_, _)
RunCall(L, th) ==
    IF th.pc # "run" THEN [L |-> L, th |-> th]
    ELSE LET ran == StepCall(L, th) IN RunCall(ran.L, ran.th)

\* reality.BookTransfer(transfer), run to its return
bookTransfer(L, realityId, transferHash) == RunCall(L, NewCall(transferHash, realityId))

----------------------------------------------------------------------------
(* The state machine *)

Threads == {"p1", "p2"}

MainReality(count) ==
    [parentRealityIds |-> {}, conflictIds |-> {}, transferOutputCount |-> count]

\* NewLedgerState and the genesis outputs `genesis`, each booked into MAIN.
NewLedgerState(genesis) ==
    [realities |-> Store(NoObjects, MAIN_REALITY_ID, MainReality(Cardinality(genesis))),
     outputs |-> [ref \in genesis |->
                     [realityId |-> MAIN_REALITY_ID, consumers |-> NoConsumers]],
     conflicts |-> NoObjects,
     bookings |-> {generateTransferOutputBookingStorageKey(
                       MAIN_REALITY_ID, ref[2], FALSE, ref[1]) : ref \in genesis}]

\* `last` records the call a sequential caller made last: what was booked
\* where, whether the same transfer had been booked there before, the
\* ledger before the call, and what the call returned.
\* `episode` records how the parallel calls under way overlap: `pre` is
\* the ledger when a call last started with no other call running, `kind`
\* tells whether since then one call ran alone ("alone"), a second one
\* started while it ran ("pair"), or more did ("chain").
NoEpisode == [pre |-> NoObjects, kind |-> "none", caller |-> ""]

\* `walk` is the ancestor traversal of one reality.DescendsFrom under way:
\* the realities whose parentRealityIdsMutex is held, the reality whose
\* parents are being loaded (`at`), the parent ids still to load (`todo`),
\* the id being resolved through the store (`resolving`), the realities
\* whose GetAncestorRealities is still to run (`stack`), the keys of the
\* result map (`result`) and the number of handles loaded and released.
NoWalk ==
    [pc |-> "idle", at |-> {}, held |-> {}, todo |-> {}, resolving |-> {},
     stack |-> <<>>, result |-> {}, loads |-> 0, released |-> 0]

NoCall ==
    [transfer |-> "", reality |-> {}, again |-> FALSE, result |-> "none",
     pre |-> NoObjects, handles |-> 0]

Init ==
    /\ \E genesis \in {{<<"g", "a">>}, GenesisRefs} : ledger = NewLedgerState(genesis)
    /\ threads = [p \in Threads |-> IdleThread]
    /\ last = NoCall
    /\ booked = {}
    /\ calls = 0
    /\ episode = NoEpisode
    /\ walk = NoWalk

\* A sequential caller books `transferHash` on the stored reality `realityId`.
BookTransfer(transferHash, realityId) ==
    /\ calls < MaxCalls
    /\ last.result # "Crashed"
    /\ Exists(ledger.realities, realityId)
    /\ \E ran \in {bookTransfer(ledger, realityId, transferHash)} :
           /\ ledger' = ran.L
           /\ last' = [transfer |-> transferHash, reality |-> realityId,
                       again |-> <<transferHash, realityId>> \in booked,
                       result |-> ran.th.result, pre |-> ledger,
                       handles |-> ran.th.handles]
           /\ booked' = IF ran.th.result = "Ok"
                         THEN booked \cup {<<transferHash, realityId>>} ELSE booked
    /\ calls' = calls + 1
    /\ UNCHANGED <<threads, episode, walk>>

Next == \E t \in TransferHashes, r \in DOMAIN ledger.realities : BookTransfer(t, r)

Spec == Init /\ [][Next]_vars

\* A ledger whose genesis outputs carry no funds, and callers spending them.
InitZero ==
    /\ ledger = NewLedgerState(ZeroGenesisRefs)
    /\ threads = [p \in Threads |-> IdleThread]
    /\ last = NoCall
    /\ booked = {}
    /\ calls = 0
    /\ episode = NoEpisode
    /\ walk = NoWalk

NextZero == \E t \in ZeroTransferHashes, r \in DOMAIN ledger.realities : BookTransfer(t, r)

SpecZero == InitZero /\ [][NextZero]_vars

----------------------------------------------------------------------------
(* Parallel callers: each thread runs its call one frame at a time. *)

NoThreadCrashed == \A p \in Threads : threads[p].result # "Crashed"

\* Thread p enters BookTransfer: the inputs are resolved and verified.
Call(p, transferHash, realityId) ==
    /\ calls < MaxConcCalls
    /\ NoThreadCrashed
    /\ threads[p].pc # "run"
    /\ Exists(ledger.realities, realityId)
    /\ \E ran \in {StepCall(ledger, NewCall(transferHash, realityId))} :
           /\ ledger' = ran.L
           /\ threads' = [threads EXCEPT ![p] = ran.th]
    /\ episode' = IF \A q \in Threads : threads[q].pc # "run"
                  THEN [pre |-> ledger, kind |-> "alone", caller |-> p]
                  ELSE [episode EXCEPT !.kind = IF @ = "alone" THEN "pair" ELSE "chain"]
    /\ calls' = calls + 1
    /\ UNCHANGED <<last, booked, walk>>

\* Thread p runs the next frame of its call.
Step(p) ==
    /\ NoThreadCrashed
    /\ threads[p].pc = "run"
    /\ \E ran \in {StepCall(ledger, threads[p])} :
           /\ ledger' = ran.L
           /\ threads' = [threads EXCEPT ![p] = ran.th]
           /\ booked' = IF ran.th.result = "Ok"
                         THEN booked \cup {<<threads[p].transfer, threads[p].reality>>}
                         ELSE booked
    /\ UNCHANGED <<last, calls, episode, walk>>

NextConc ==
    \E p \in Threads :
        \/ \E t \in TransferHashes, r \in DOMAIN ledger.realities : Call(p, t, r)
        \/ Step(p)

SpecConc == Init /\ [][NextConc]_vars

----------------------------------------------------------------------------
(* reality.DescendsFrom, one lock, load and release at a time: the walk    *)
(* verifyTransfer makes over the ancestors of the booking reality.         *)

\* DescendsFrom (lines 87-103) on reality `id`, for an id other than its
\* own: GetAncestorRealities(id) is entered.
StartDescendsFrom(id) ==
    /\ walk.pc \in {"idle", "returned"}
    /\ walk' = [NoWalk EXCEPT !.pc = "call", !.stack = <<id>>]
    /\ UNCHANGED <<ledger, threads, last, booked, calls, episode>>

\* GetParentRealities, line 112: the parent lock of the reality on top of
\* the stack is taken for reading.
RLockParents ==
    /\ walk.pc = "call"
    /\ walk.stack # <<>>
    /\ LET id == Head(walk.stack)
       IN  walk' = [walk EXCEPT !.pc = "locked", !.at = id,
                                !.held = @ \cup {id},
                                !.todo = ledger.realities[id].parentRealityIds,
                                !.stack = Tail(@)]
    /\ UNCHANGED <<ledger, threads, last, booked, calls, episode>>

\* GetParentRealities, line 114: ledgerState.GetReality(parentRealityId)
\* is called for the next parent id.
ResolveParent(parentRealityId) ==
    /\ walk.pc = "locked"
    /\ parentRealityId \in walk.todo
    /\ walk.loads < MaxWalkLoads
    /\ walk' = [walk EXCEPT !.pc = "resolving", !.resolving = parentRealityId]
    /\ UNCHANGED <<ledger, threads, last, booked, calls, episode>>

\* GetParentRealities, lines 115-122: the handle is there, or the lock is
\* released and the goroutine panics.
ParentResolved ==
    /\ walk.pc = "resolving"
    /\ walk' = IF Exists(ledger.realities, walk.resolving)
               THEN [walk EXCEPT !.pc = "locked", !.todo = @ \ {walk.resolving},
                                 !.resolving = {}, !.result = @ \cup {walk.resolving},
                                 !.loads = @ + 1]
               ELSE [walk EXCEPT !.pc = "panicked", !.held = @ \ {walk.at},
                                 !.resolving = {}]
    /\ UNCHANGED <<ledger, threads, last, booked, calls, episode>>

\* GetParentRealities, line 125, and GetAncestorRealities, lines 135-141:
\* the lock is released and the traversal goes on with each parent.
RUnlockParents ==
    /\ walk.pc = "locked"
    /\ walk.todo = {}
    /\ walk' = [walk EXCEPT !.pc = "call", !.held = @ \ {walk.at},
                            !.stack = Ranged(ledger.realities[walk.at].parentRealityIds) \o @,
                            !.at = {}]
    /\ UNCHANGED <<ledger, threads, last, booked, calls, episode>>

\* DescendsFrom, lines 93-99: every entry of the map is released, and the
\* call returns.
ReleaseAncestors ==
    /\ walk.pc = "call"
    /\ walk.stack = <<>>
    /\ walk' = [walk EXCEPT !.pc = "returned", !.released = Cardinality(walk.result)]
    /\ UNCHANGED <<ledger, threads, last, booked, calls, episode>>

\* A caller books transfers one after the other; before a call, the
\* ancestors of a reality are walked as the call's verification will.
NextWalk ==
    \/ walk.pc \in {"idle", "returned"} /\ Next
    \/ \E id \in DOMAIN ledger.realities : StartDescendsFrom(id)
    \/ RLockParents
    \/ \E parentRealityId \in walk.todo : ResolveParent(parentRealityId)
    \/ ParentResolved
    \/ RUnlockParents
    \/ ReleaseAncestors

SpecWalk == Init /\ [][NextWalk]_vars

----------------------------------------------------------------------------
(* What the claims speak of *)

Realities == DOMAIN ledger.realities

Outputs == DOMAIN ledger.outputs

OwnedBy(L, realityId) == {x \in DOMAIN L.outputs : L.outputs[x].realityId = realityId}

\* x is reached from itself over one or more parent edges
OnParentCycle(L, realityId) == realityId \in GetAncestorRealities(L, realityId)

\* The last sequential call returned nil.
LastOk == last.result = "Ok"

Colors(t) ==
    UNION {{GetBalances(InputsOf(t)[i])[j][1] : j \in 1..Len(GetBalances(InputsOf(t)[i]))} :
             i \in 1..Len(InputsOf(t))}
    \cup UNION {{OutputsOf(t)[i][2][j][1] : j \in 1..Len(OutputsOf(t)[i][2])} :
                  i \in 1..Len(OutputsOf(t))}

\* The amounts of `color` in a list of balance lists.
RECURSIVE AmountsOf(_, _)
AmountsOf(balanceLists, color) ==
    IF balanceLists = <<>> THEN <<>>
    ELSE SelectSeq([j \in 1..Len(Head(balanceLists)) |-> Head(balanceLists)[j]],
                   LAMBDA b : b[1] = color)
         \o AmountsOf(Tail(balanceLists), color)

Values(balances) == [j \in 1..Len(balances) |-> balances[j][2]]

InputTotal(t, color) ==
    TrueSum(Values(AmountsOf([i \in 1..Len(InputsOf(t)) |-> GetBalances(InputsOf(t)[i])],
                             color)))

OutputTotal(t, color) ==
    TrueSum(Values(AmountsOf([i \in 1..Len(OutputsOf(t)) |-> OutputsOf(t)[i][2]], color)))

\* Per-color conservation over the integers.
Conserved(t) == \A color \in Colors(t) : InputTotal(t, color) = OutputTotal(t, color)

VerificationErrors == {"MissingInput", "InputNotInReality", "UnbalancedTransfer"}

----------------------------------------------------------------------------
(* C1.  After any sequence of BookTransfer calls the parent relation over   *)
(* the stored realities is acyclic, and MAIN has no parent.                 *)
C1_ParentRelationAcyclic ==
    /\ \A r \in Realities : ~OnParentCycle(ledger, r)
    /\ Exists(ledger.realities, MAIN_REALITY_ID)
          => ledger.realities[MAIN_REALITY_ID].parentRealityIds = {}

(* C2.  For every stored reality, transferOutputCount equals the number of  *)
(* stored outputs whose realityId is that reality.                          *)
C2_CountEqualsOwnedOutputs ==
    \A r \in Realities :
        ledger.realities[r].transferOutputCount = Cardinality(OwnedBy(ledger, r))

(* C3.  The MAIN reality is never deleted from the reality store.           *)
C3_MainNeverDeleted == Exists(ledger.realities, MAIN_REALITY_ID)

(* C4.  Every stored transfer output has a non-empty realityId that         *)
(* resolves to a stored reality, also while calls interleave.               *)
C4_OutputRealityResolves ==
    \A x \in Outputs :
        /\ ledger.outputs[x].realityId # emptyRealityId
        /\ Exists(ledger.realities, ledger.outputs[x].realityId)


\* Input i of the last call's transfer did not exist before the call.
InputMissing(i) == ~Exists(last.pre.outputs, InputsOf(last.transfer)[i])

\* Input i existed, in a reality that is neither the booking reality nor
\* one of its ancestors.
InputOutOfReach(i) ==
    /\ ~InputMissing(i)
    /\ last.pre.outputs[InputsOf(last.transfer)[i]].realityId
          \notin {last.reality} \cup GetAncestorRealities(last.pre, last.reality)

LastInputs == 1..Len(InputsOf(last.transfer))

(* C5.  A BookTransfer that fails verification returns the error of what    *)
(* failed (a missing input, an input out of the booking reality's reach, a  *)
(* color that does not balance) and leaves the ledger as it was; a missing  *)
(* or unreachable input never lets the call return nil.                     *)
C5_FailedVerificationChangesNothing ==
    /\ last.result \in VerificationErrors => ledger = last.pre
    /\ last.result = "MissingInput" => \E i \in LastInputs : InputMissing(i)
    /\ last.result = "InputNotInReality" => \E i \in LastInputs : InputOutOfReach(i)
    /\ last.result = "UnbalancedTransfer" => ~Conserved(last.transfer)
    /\ (last.transfer # "" /\ \E i \in LastInputs : InputMissing(i) \/ InputOutOfReach(i))
          => last.result \in VerificationErrors \cup {"Crashed"}

\* An input in a sibling reality was refused after conflicts had been booked.
C5_Witness ==
    /\ last.result = "InputNotInReality"
    /\ DOMAIN ledger.conflicts # {}
    /\ ledger = last.pre

(* C6.  BookTransfer accepts a transfer only if, for every color, the sum   *)
(* of the input balances equals the sum of the output balances over the     *)
(* integers (no wrap-around).                                               *)
C6_AcceptedOnlyIfConserved == LastOk => Conserved(last.transfer)

(* C9.  Booking a transfer into a reality a second time, after it was       *)
(* booked there successfully, changes no count, creates no reality and no   *)
(* conflict set, and moves no output.                                       *)
C9_RebookingIsNoOp ==
    last.again =>
        /\ DOMAIN ledger.realities = DOMAIN last.pre.realities
        /\ \A r \in Realities :
              ledger.realities[r].transferOutputCount
                  = last.pre.realities[r].transferOutputCount
        /\ DOMAIN ledger.conflicts = DOMAIN last.pre.conflicts
        /\ DOMAIN ledger.outputs = DOMAIN last.pre.outputs
        /\ \A x \in Outputs : ledger.outputs[x].realityId = last.pre.outputs[x].realityId


\* The consumers recorded on a stored output.
Consumers(L, x) == IF Exists(L.outputs, x) THEN DOMAIN L.outputs[x].consumers ELSE {}

\* The transfers that spend, over a chain of any length, an output of one of `hashes`.
RECURSIVE SpendersOf(_)
SpendersOf(hashes) ==
    LET next == hashes \cup {u \in TransferHashes :
                    \E i \in 1..Len(InputsOf(u)) : InputsOf(u)[i][1] \in hashes}
    IN  IF next = hashes THEN hashes ELSE SpendersOf(next)

ConsumerRealityHolds(x, t) ==
    LET conflictSetId == NewConflictSetId(x[1], x[2])
        realityId == ToRealityId(t)
    IN  /\ Exists(ledger.realities, realityId)
        /\ realityId \in ledger.conflicts[conflictSetId].realities
        /\ ledger.outputs[x].realityId \in GetAncestorRealities(ledger, realityId)
        /\ \A y \in OutputRefsOf(t) \cap Outputs : ledger.outputs[y].realityId = realityId

(* C7.  Between sequential BookTransfer calls an output has two or more    *)
(* recorded consumers iff its conflict set exists; and then every consumer *)
(* T has a stored reality {T} that is a member of the conflict set,        *)
(* descends from the output's reality and owns T's outputs.                *)
C7_ConsumersLiveInOwnRealities ==
    last.result # "Crashed" =>
        \A x \in Outputs :
            /\ (Cardinality(Consumers(ledger, x)) >= 2)
                   <=> Exists(ledger.conflicts, NewConflictSetId(x[1], x[2]))
            /\ Cardinality(Consumers(ledger, x)) >= 2
                   => \A t \in Consumers(ledger, x) : ConsumerRealityHolds(x, t)

\* The call just returned made `x`, so far consumed by t1 alone, contested.
FirstConflictOn(x, t1) ==
    /\ Consumers(last.pre, x) = {t1}
    /\ t1 # last.transfer
    /\ ~Exists(last.pre.conflicts, NewConflictSetId(x[1], x[2]))
    /\ \E i \in LastInputs : InputsOf(last.transfer)[i] = x

UnderElevatedReality(y, t1) ==
    LET owner == ledger.outputs[y].realityId
    IN  /\ owner # last.reality
        /\ \/ owner = ToRealityId(t1)
           \/ /\ Exists(ledger.realities, owner)
              /\ ~AncestorLoadPanics(ledger, owner)
              /\ ToRealityId(t1) \in GetAncestorRealities(ledger, owner)

(* C8.  When a BookTransfer on reality R makes an output contested for the *)
(* first time, and T1 is its prior consumer, then after the call every     *)
(* stored output that spends from an output of T1 over a chain of any      *)
(* length is not owned by R: it is owned by the reality {T1} or by a       *)
(* reality descending from it.                                             *)
C8_SpendChainElevated ==
    LastOk =>
        \A x \in DOMAIN last.pre.outputs : \A t1 \in TransferHashes :
            FirstConflictOn(x, t1) =>
                \A u \in SpendersOf({t1}) \ {t1} :
                    \A y \in OutputRefsOf(u) \cap Outputs : UnderElevatedReality(y, t1)

\* The consumers input i of the transfer just booked had before the call.
PriorConsumers(i) == Consumers(last.pre, InputsOf(last.transfer)[i]) \ {last.transfer}

BookedInto(realityId) ==
    \A y \in OutputRefsOf(last.transfer) :
        Exists(ledger.outputs, y) /\ ledger.outputs[y].realityId = realityId

BookedPlainly ==
    /\ BookedInto(last.reality)
    /\ Exists(ledger.realities, last.reality)
    /\ ledger.realities[last.reality].transferOutputCount
           = last.pre.realities[last.reality].transferOutputCount
                 + Len(OutputsOf(last.transfer))
    /\ DOMAIN ledger.realities = DOMAIN last.pre.realities
    /\ DOMAIN ledger.conflicts = DOMAIN last.pre.conflicts

BookedIntoOwnReality ==
    LET targetRealityId == ToRealityId(last.transfer)
    IN  /\ BookedInto(targetRealityId)
        /\ Exists(ledger.realities, targetRealityId)
        /\ GetParentRealityIds(ledger, targetRealityId) = {last.reality}
        /\ \A i \in LastInputs : PriorConsumers(i) # {} =>
               LET x == InputsOf(last.transfer)[i]
                   conflictSetId == NewConflictSetId(x[1], x[2])
               IN  /\ Exists(ledger.conflicts, conflictSetId)
                   /\ targetRealityId \in ledger.conflicts[conflictSetId].realities
                   /\ conflictSetId \in ledger.realities[targetRealityId].conflictIds

(* C10.  A successful BookTransfer of T on R: when no input of T had a     *)
(* prior consumer, T's outputs are owned by R, R's count grew by their     *)
(* number and no reality or conflict set was created; when some input had  *)
(* a prior consumer, T's outputs are owned by the reality {T}, whose sole  *)
(* parent is R and which is registered with every contested input's        *)
(* conflict set.                                                           *)
C10_OutputsBookedWhereTheConflictsSay ==
    LastOk =>
        IF \A i \in LastInputs : PriorConsumers(i) = {}
        THEN BookedPlainly
        ELSE BookedIntoOwnReality

\* The conflict set ids a reality carries itself or inherits from an ancestor.
InheritedConflictIds(L, realityId) ==
    UNION {L.realities[a].conflictIds :
             a \in {b \in GetAncestorRealities(L, realityId) \cup {realityId} :
                      Exists(L.realities, b)}}

(* C11.  For every conflict set c and every reality id in c.realities, the *)
(* reality is stored and carries c.id in its own conflictIds or in those   *)
(* of one of its ancestors.                                                *)
C11_ConflictMembersCarryTheConflict ==
    \A c \in DOMAIN ledger.conflicts : \A r \in ledger.conflicts[c].realities :
        /\ Exists(ledger.realities, r)
        /\ c \in InheritedConflictIds(ledger, r)

(* C12.  Between calls every stored reality other than MAIN has a          *)
(* transferOutputCount of at least 1.                                      *)
C12_NoEmptyRealityStays ==
    \A r \in Realities \ {MAIN_REALITY_ID} : ledger.realities[r].transferOutputCount >= 1

\* The transfer has one input, and that input carries no funds.
ZeroInputOnly(t) ==
    /\ Len(InputsOf(t)) = 1
    /\ \A j \in 1..Len(GetBalances(InputsOf(t)[1])) : GetBalances(InputsOf(t)[1])[j][2] = Zero64

\* The call just made spent, for the first time, a stored input within reach.
FirstSpendOfZeroInput ==
    /\ last.transfer \in ZeroTransferHashes
    /\ ZeroInputOnly(last.transfer)
    /\ last.result \notin {"MissingInput", "InputNotInReality", "Crashed"}
    /\ Consumers(last.pre, InputsOf(last.transfer)[1]) = {}

\* Nothing but the consumer record of `x` (and its spent flag in the
\* bookings index) differs from the ledger before the call.
OnlyConsumerRecorded(x) ==
    /\ ledger.realities = last.pre.realities
    /\ ledger.conflicts = last.pre.conflicts
    /\ DOMAIN ledger.outputs = DOMAIN last.pre.outputs
    /\ \A y \in DOMAIN ledger.outputs :
           /\ ledger.outputs[y].realityId = last.pre.outputs[y].realityId
           /\ y # x => ledger.outputs[y] = last.pre.outputs[y]
    /\ Consumers(ledger, x) = {last.transfer}

(* C13.  A transfer whose only input carries zero balances is rejected     *)
(* with UnbalancedTransfer when it has an output, and accepted, recording  *)
(* nothing but the consumer of the input, when it has none.                *)
C13_ZeroInputTransfers ==
    FirstSpendOfZeroInput =>
        IF OutputsOf(last.transfer) # <<>>
        THEN last.result = "UnbalancedTransfer"
        ELSE last.result = "Ok" /\ OnlyConsumerRecorded(InputsOf(last.transfer)[1])

\* Both threads have returned from the two calls of a pair.
PairReturned ==
    /\ episode.kind = "pair"
    /\ \A p \in Threads : threads[p].pc = "done"

InputSet(t) == {InputsOf(t)[i] : i \in 1..Len(InputsOf(t))}

\* The calls of p and q, run one after the other from the ledger the pair
\* started on, end in the ledger and with the results the pair ended with.
AsIfOneAfterTheOther(p, q) ==
    LET first == bookTransfer(episode.pre, threads[p].reality, threads[p].transfer)
    IN  /\ first.th.result = threads[p].result
        /\ Exists(first.L.realities, threads[q].reality)
        /\ LET second == bookTransfer(first.L, threads[q].reality, threads[q].transfer)
           IN  /\ second.th.result = threads[q].result
               /\ second.L = ledger

(* C14.  Two parallel BookTransfer calls whose input sets are disjoint     *)
(* end, for every interleaving, with the results and in the ledger that    *)
(* running them one after the other, in one of the two orders, gives.      *)
C14_DisjointCallsAreIndependent ==
    (PairReturned /\ InputSet(threads["p1"].transfer) \cap InputSet(threads["p2"].transfer) = {})
        => AsIfOneAfterTheOther("p1", "p2") \/ AsIfOneAfterTheOther("p2", "p1")

\* The two calls of the pair were made on the same reality, by different
\* transfers that passed verification, and both spend `x`, unspent before.
RacedFor(x) ==
    /\ PairReturned
    /\ threads["p1"].reality = threads["p2"].reality
    /\ threads["p1"].transfer # threads["p2"].transfer
    /\ \A p \in Threads :
           /\ x \in InputSet(threads[p].transfer)
           /\ threads[p].result \notin VerificationErrors
    /\ Exists(episode.pre.outputs, x)
    /\ Consumers(episode.pre, x) = {}

ConflictMaterialized(x) ==
    LET conflictSetId == NewConflictSetId(x[1], x[2])
    IN  /\ Exists(ledger.conflicts, conflictSetId)
        /\ \A p \in Threads :
               /\ threads[p].result = "Ok"
               /\ ToRealityId(threads[p].transfer) \in ledger.conflicts[conflictSetId].realities
               /\ \A y \in OutputRefsOf(threads[p].transfer) :
                      /\ Exists(ledger.outputs, y)
                      /\ ledger.outputs[y].realityId = ToRealityId(threads[p].transfer)

(* C15.  When two parallel BookTransfer calls on one reality spend the     *)
(* same unspent output x, both return nil, the conflict set of x holds     *)
(* the realities of both transfers, and each transfer's outputs are owned  *)
(* by the reality of its own hash.                                         *)
C15_RacingSpendersBothMaterialize ==
    PairReturned =>
        \A x \in InputSet(threads["p1"].transfer) : RacedFor(x) => ConflictMaterialized(x)

\* The call made last has returned, and no other call ran while it did.
RanAlone ==
    /\ episode.kind = "alone"
    /\ threads[episode.caller].pc = "done"

(* C16.  Whenever BookTransfer returns an error of any kind, the ledger is *)
(* the ledger before the call: no consumer recorded, no conflict set or    *)
(* reality created, no output moved.                                       *)
C16_ErrorLeavesLedgerUntouched ==
    /\ (last.result \notin {"Ok", "none"}) => ledger = last.pre
    /\ (RanAlone /\ threads[episode.caller].result # "Ok") => ledger = episode.pre

\* t1 booked on r1, then t2 booked on r2, from ledger L; `ok` when both
\* calls return nil.
BookedInOrder(L, t1, r1, t2, r2) ==
    LET first == bookTransfer(L, r1, t1)
    IN  IF first.th.result # "Ok" \/ ~Exists(first.L.realities, r2)
        THEN [ok |-> FALSE, L |-> first.L]
        ELSE LET second == bookTransfer(first.L, r2, t2)
             IN  [ok |-> second.th.result = "Ok", L |-> second.L]

\* The same realities with the same parents, the same members of every
\* conflict set, and the same owner of every output.
SameRealityDAG(A, B) ==
    /\ DOMAIN A.realities = DOMAIN B.realities
    /\ \A r \in DOMAIN A.realities :
           A.realities[r].parentRealityIds = B.realities[r].parentRealityIds
    /\ DOMAIN A.conflicts = DOMAIN B.conflicts
    /\ \A c \in DOMAIN A.conflicts : A.conflicts[c].realities = B.conflicts[c].realities
    /\ DOMAIN A.outputs = DOMAIN B.outputs
    /\ \A x \in DOMAIN A.outputs : A.outputs[x].realityId = B.outputs[x].realityId

\* t has not been booked: it has no output and spends nothing in L.
NotYetBooked(L, t) ==
    /\ \A x \in DOMAIN L.outputs : t \notin DOMAIN L.outputs[x].consumers
    /\ \A y \in OutputRefsOf(t) : ~Exists(L.outputs, y)

\* Two transfers not yet booked that spend a common output, and two
\* realities of the ledger to book them on.
ConflictingPairs ==
    {pair \in (TransferHashes \X Realities) \X (TransferHashes \X Realities) :
        /\ pair[1][1] # pair[2][1]
        /\ InputSet(pair[1][1]) \cap InputSet(pair[2][1]) # {}
        /\ NotYetBooked(ledger, pair[1][1])
        /\ NotYetBooked(ledger, pair[2][1])}

(* C17.  Two transfers that spend a common output, booked one after the   *)
(* other with both calls returning nil in either order, end in the same    *)
(* realities with the same parents, the same conflict-set members and the  *)
(* same owning reality of every output whichever is booked first.          *)
C17_BookingOrderDoesNotMatter ==
    (calls + 2 <= MaxCalls /\ last.result # "Crashed") =>
        \A pair \in ConflictingPairs :
            LET oneTwo == BookedInOrder(ledger, pair[1][1], pair[1][2], pair[2][1], pair[2][2])
                twoOne == BookedInOrder(ledger, pair[2][1], pair[2][2], pair[1][1], pair[1][2])
            IN  (oneTwo.ok /\ twoOne.ok) => SameRealityDAG(oneTwo.L, twoOne.L)

\* The bookings index that mirrors the stored outputs of L: one entry per
\* output, under its reality and under whether it has a consumer.
MirrorOfOutputs(L) ==
    {generateTransferOutputBookingStorageKey(
         L.outputs[x].realityId, x[2], Consumers(L, x) # {}, x[1]) : x \in DOMAIN L.outputs}

(* C18.  Between calls the bookings index mirrors the stored outputs: an   *)
(* entry (r, addressHash, spent, transferHash) is present iff that output  *)
(* is stored with realityId r and spent says whether it has a consumer; no *)
(* entry stays behind under an old reality or an old spent flag.           *)
C18_BookingsMirrorOutputs ==
    ledger.bookings = MirrorOfOutputs(ledger)

\* The realities the last call may have materialized: the one named after
\* the transfer booked, and those named after the consumers its inputs had.
MaterializedByLastCall ==
    {ToRealityId(last.transfer)} \cup
    {ToRealityId(u) : u \in UNION {PriorConsumers(i) : i \in LastInputs}}

C20_ReparentingKeepsOneParent ==
    /\ Exists(ledger.realities, MAIN_REALITY_ID) =>
           ledger.realities[MAIN_REALITY_ID].parentRealityIds = {}
    /\ \A t \in TransferHashes :
           Exists(ledger.realities, ToRealityId(t)) =>
               Cardinality(ledger.realities[ToRealityId(t)].parentRealityIds) = 1

\* The last call booked a transfer not recorded on any of its inputs before.
LastBookedAfresh ==
    \A i \in LastInputs : last.transfer \notin Consumers(last.pre, InputsOf(last.transfer)[i])

\* Input i of the last call had two or more consumers before the call.
LateConsumerOf(i) == Cardinality(PriorConsumers(i)) >= 2

\* The last call returned nil, was a third or later consumer of some input,
\* and the second consumer of none.
LateConsumerOnly ==
    /\ LastOk
    /\ LastBookedAfresh
    /\ \E i \in LastInputs : LateConsumerOf(i)
    /\ \A i \in LastInputs : Cardinality(PriorConsumers(i)) # 1

\* Reality `realityId` is what it was before the last call: there or not,
\* with the same parents.
RealityUntouched(realityId) ==
    /\ Exists(ledger.realities, realityId) <=> Exists(last.pre.realities, realityId)
    /\ Exists(ledger.realities, realityId) =>
           ledger.realities[realityId].parentRealityIds
               = last.pre.realities[realityId].parentRealityIds

\* The outputs of transfer u are owned by the realities that owned them
\* before the last call.
OutputsStayed(u) ==
    \A y \in OutputRefsOf(u) :
        /\ Exists(ledger.outputs, y) <=> Exists(last.pre.outputs, y)
        /\ Exists(ledger.outputs, y) =>
               ledger.outputs[y].realityId = last.pre.outputs[y].realityId

\* The conflict set of input i was there before the last call and has kept
\* every member.
ConflictSetFetched(i) ==
    LET x == InputsOf(last.transfer)[i]
        conflictSetId == NewConflictSetId(x[1], x[2])
    IN  /\ Exists(last.pre.conflicts, conflictSetId)
        /\ Exists(ledger.conflicts, conflictSetId)
        /\ last.pre.conflicts[conflictSetId].realities
               \subseteq ledger.conflicts[conflictSetId].realities

\* The last call returned nil as the second consumer of its input i.
SecondConsumerOf(i) ==
    /\ LastOk
    /\ LastBookedAfresh
    /\ Cardinality(PriorConsumers(i)) = 1

\* The conflict set of input i exists and holds the reality of the one
\* prior consumer, which exists.
FirstDetection(i) ==
    LET x == InputsOf(last.transfer)[i]
        conflictSetId == NewConflictSetId(x[1], x[2])
    IN  /\ Exists(ledger.conflicts, conflictSetId)
        /\ \A u \in PriorConsumers(i) :
               /\ ToRealityId(u) \in ledger.conflicts[conflictSetId].realities
               /\ Exists(ledger.realities, ToRealityId(u))

C22_NoStoreLoadUnderParentLock ==
    walk.pc = "resolving" => walk.held = {}

(* C23.  When a BookTransfer call returns, with nil or with an error, it   *)
(* holds none of the handles it acquired (inputs, conflict sets); and the  *)
(* ancestor traversal of DescendsFrom releases every handle it loaded.     *)
C23_HandlesBalanced ==
    /\ last.result \notin {"none", "Crashed"} => last.handles = 0
    /\ walk.pc = "returned" => walk.released = walk.loads

\* GetAncestorRealities is entered on a reality that is its own ancestor:
\* the recursion of lines 135-141 keeps no record of what it has visited
\* and comes back to this reality without end.
WalkOnParentCycle ==
    /\ walk.pc = "call"
    /\ walk.stack # <<>>
    /\ OnParentCycle(ledger, Head(walk.stack))

(* C24.  Every BookTransfer call made on a ledger that earlier calls left  *)
(* returns: the ancestor traversal never aborts on a parent id that does   *)
(* not resolve and never recurses along a parent cycle, and no call dies   *)
(* or hangs in its traversal or its elevation.                             *)
C24_EveryCallReturns ==
    /\ walk.pc # "panicked"
    /\ ~WalkOnParentCycle
    /\ last.result # "Crashed"

====
